---------------------------- MODULE Spec2Model ----------------------------
(***************************************************************************)
(* Verification model of semqa/domain_languages/drop/drop_language.py:     *)
(* the Date value with its partial comparisons, and the DropLanguage       *)
(* instance (construction, date scoring, the predicates, the grammar).     *)
(*                                                                         *)
(* Four specifications share the module:                                   *)
(*   SpecDate    applies Date.__eq__, Date.__gt__ and Date.__ge__ to three *)
(*               operands drawn from a bounded set of objects;             *)
(*   SpecStatic  applies compute_date_comparison_matrices to bounded date  *)
(*               lists;                                                    *)
(*   Spec        constructs one DropLanguage instance from bounded inputs  *)
(*               and then runs its predicates;                             *)
(*   SpecGrammar builds the programs over the predicates' signatures.      *)
(***************************************************************************)
EXTENDS Integers, Sequences, FiniteSets, TLC

(***************************************************************************)
(* Bounds of the model.  Years are 2001..2000+MaxYear, months 1..MaxMonth, *)
(* days 1..MaxDay; every field may also be the unknown sentinel -1.        *)
(***************************************************************************)
MaxYear == 2
MaxMonth == 2
MaxDay == 2

Unknown == -1

Years == {Unknown} \cup {2000 + k : k \in 1..MaxYear}
Months == {Unknown} \cup (1..MaxMonth)
Days == {Unknown} \cup (1..MaxDay)

(* Date.__init__: an object of class Date with the three fields.           *)
Date(y, m, d) == [cls |-> "Date", year |-> y, month |-> m, day |-> d]

DateValues == {Date(y, m, d) : y \in Years, m \in Months, d \in Days}

(* An object that is not a Date although it carries the same attributes.   *)
NotADate == [cls |-> "Other", year |-> 2001, month |-> 1, day |-> 1]

Objects == DateValues \cup {NotADate}

(* isinstance(other, Date)                                                 *)
IsDate(o) == o.cls = "Date"

(* The outcome of a method call: a returned boolean or a raised exception. *)
Return(v) == [exc |-> "none", val |-> v]
Raise(e) == [exc |-> e, val |-> FALSE]
Unset == [exc |-> "unset", val |-> FALSE]

(***************************************************************************)
(* Date.__eq__, preceded by a variant in which an unknown year matches     *)
(* only an unknown year.                                                   *)
(***************************************************************************)
Date_eq_mut_year(self, other) ==
  IF ~IsDate(other) THEN Raise("ExecutionError")
  ELSE LET year_is_same == self.year = other.year
           month_is_same == self.month = Unknown \/ other.month = Unknown
                              \/ self.month = other.month
           day_is_same == self.day = Unknown \/ other.day = Unknown
                              \/ self.day = other.day
       IN Return(year_is_same /\ month_is_same /\ day_is_same)

(* a variant that answers False for a value that is not a Date, as the     *)
(* default equality of Python objects would                                *)
Date_eq_mut_coerce(self, other) ==
  IF ~IsDate(other) THEN Return(FALSE)
  ELSE LET year_is_same == self.year = Unknown \/ other.year = Unknown
                              \/ self.year = other.year
           month_is_same == self.month = Unknown \/ other.month = Unknown
                              \/ self.month = other.month
           day_is_same == self.day = Unknown \/ other.day = Unknown
                              \/ self.day = other.day
       IN Return(year_is_same /\ month_is_same /\ day_is_same)

Date_eq(self, other) ==
  IF ~IsDate(other) THEN Raise("ExecutionError")
  ELSE LET year_is_same == self.year = Unknown \/ other.year = Unknown
                              \/ self.year = other.year
           month_is_same == self.month = Unknown \/ other.month = Unknown
                              \/ self.month = other.month
           day_is_same == self.day = Unknown \/ other.day = Unknown
                              \/ self.day = other.day
       IN Return(year_is_same /\ month_is_same /\ day_is_same)

(***************************************************************************)
(* Variants of Date.__gt__ with one slip each, used to show that the       *)
(* properties below depend on the method's branches.                       *)
(***************************************************************************)
GtTail(self, other) ==
  IF self.month = Unknown /\ other.month = Unknown THEN Return(FALSE)
  ELSE IF self.month = Unknown THEN Return(FALSE)
  ELSE IF other.month = Unknown THEN Return(TRUE)
  ELSE IF self.month # other.month THEN Return(self.month > other.month)
  ELSE IF self.day = Unknown /\ other.day = Unknown THEN Return(FALSE)
  ELSE IF self.day = Unknown THEN Return(FALSE)
  ELSE IF other.day = Unknown THEN Return(TRUE)
  ELSE Return(self.day > other.day)

(* the last comparison written >= instead of >                             *)
Date_gt_mut_day_ge(self, other) ==
  IF ~IsDate(other) THEN Raise("ExecutionError")
  ELSE IF (self.year = Unknown) # (other.year = Unknown)
       THEN (IF self.year = Unknown THEN Return(FALSE) ELSE Return(TRUE))
  ELSE IF self.year # other.year THEN Return(self.year > other.year)
  ELSE IF self.month = Unknown /\ other.month = Unknown THEN Return(FALSE)
  ELSE IF self.month = Unknown THEN Return(FALSE)
  ELSE IF other.month = Unknown THEN Return(TRUE)
  ELSE IF self.month # other.month THEN Return(self.month > other.month)
  ELSE IF self.day = Unknown /\ other.day = Unknown THEN Return(FALSE)
  ELSE IF self.day = Unknown THEN Return(FALSE)
  ELSE IF other.day = Unknown THEN Return(TRUE)
  ELSE Return(self.day >= other.day)

(* a year known on one side only: True whichever side it is                *)
Date_gt_mut_year_true(self, other) ==
  IF ~IsDate(other) THEN Raise("ExecutionError")
  ELSE IF (self.year = Unknown) # (other.year = Unknown) THEN Return(TRUE)
  ELSE IF self.year # other.year THEN Return(self.year > other.year)
  ELSE GtTail(self, other)

(* a year known on one side only: comparison undefined, False              *)
Date_gt_mut_year_undefined(self, other) ==
  IF ~IsDate(other) THEN Raise("ExecutionError")
  ELSE IF (self.year = Unknown) # (other.year = Unknown) THEN Return(FALSE)
  ELSE IF self.year # other.year THEN Return(self.year > other.year)
  ELSE GtTail(self, other)

(* an unknown year on either side, also on both, ends the comparison       *)
Date_gt_mut_both_unknown(self, other) ==
  IF ~IsDate(other) THEN Raise("ExecutionError")
  ELSE IF self.year = Unknown \/ other.year = Unknown
       THEN (IF self.year = Unknown THEN Return(FALSE) ELSE Return(TRUE))
  ELSE IF self.year # other.year THEN Return(self.year > other.year)
  ELSE GtTail(self, other)

(* a month known on the right side only: True instead of False            *)
Date_gt_mut_month_true(self, other) ==
  IF ~IsDate(other) THEN Raise("ExecutionError")
  ELSE IF (self.year = Unknown) # (other.year = Unknown)
       THEN (IF self.year = Unknown THEN Return(FALSE) ELSE Return(TRUE))
  ELSE IF self.year # other.year THEN Return(self.year > other.year)
  ELSE IF self.month = Unknown /\ other.month = Unknown THEN Return(FALSE)
  ELSE IF self.month = Unknown THEN Return(TRUE)
  ELSE IF other.month = Unknown THEN Return(TRUE)
  ELSE IF self.month # other.month THEN Return(self.month > other.month)
  ELSE IF self.day = Unknown /\ other.day = Unknown THEN Return(FALSE)
  ELSE IF self.day = Unknown THEN Return(FALSE)
  ELSE IF other.day = Unknown THEN Return(TRUE)
  ELSE Return(self.day > other.day)

(***************************************************************************)
(* Date.__gt__: one branch per return statement of the method.             *)
(***************************************************************************)
Date_gt(self, other) ==
  IF ~IsDate(other) THEN Raise("ExecutionError")
  ELSE IF (self.year = Unknown) # (other.year = Unknown)
       THEN (IF self.year = Unknown THEN Return(FALSE) ELSE Return(TRUE))
  ELSE IF self.year # other.year THEN Return(self.year > other.year)
  ELSE IF self.month = Unknown /\ other.month = Unknown THEN Return(FALSE)
  ELSE IF self.month = Unknown THEN Return(FALSE)
  ELSE IF other.month = Unknown THEN Return(TRUE)
  ELSE IF self.month # other.month THEN Return(self.month > other.month)
  ELSE IF self.day = Unknown /\ other.day = Unknown THEN Return(FALSE)
  ELSE IF self.day = Unknown THEN Return(FALSE)
  ELSE IF other.day = Unknown THEN Return(TRUE)
  ELSE Return(self.day > other.day)

(***************************************************************************)
(* Date.__ge__: self > other or self == other, the right operand of `or`   *)
(* evaluated only when the left one is false.                              *)
(***************************************************************************)
Date_ge(self, other) ==
  IF ~IsDate(other) THEN Raise("ExecutionError")
  ELSE LET g == Date_gt(self, other)
       IN IF g.exc # "none" THEN g
          ELSE IF g.val THEN Return(TRUE)
          ELSE Date_eq(self, other)

(***************************************************************************)
(* State.                                                                  *)
(*   a, b, c, pcDate, eqRes, gtRes, geRes : the comparison run, three      *)
(*     operands, the position of the run and the outcome of every call     *)
(*     made so far, indexed by the positions of the left and the right     *)
(*     operand in <<a, b, c>>;                                             *)
(*   args        : the arguments handed to the operation under way;        *)
(*   self        : the fields set on the DropLanguage instance, a record   *)
(*                 whose domain is the set of fields set so far;           *)
(*   start_types : the start types registered with the DomainLanguage;     *)
(*   pc          : "new" before DropLanguage.__init__, then "ready" or,    *)
(*                 without an embedded question, "placeholder"; "static"   *)
(*                 and "idle" when no instance is involved;                *)
(*   call        : the last call made, with its arguments, its local       *)
(*                 variables and what it returned or raised;               *)
(*   ran         : the methods of the instance that DropLanguage.__init__  *)
(*                 has run, itself included.                               *)
(***************************************************************************)
VARIABLES a, b, c, pcDate, eqRes, gtRes, geRes, args, self, start_types, pc, call,
          ran

dateVars == <<a, b, c, pcDate, eqRes, gtRes, geRes>>
langVars == <<args, self, start_types, pc, call, ran>>
vars == <<a, b, c, pcDate, eqRes, gtRes, geRes, args, self, start_types, pc, call,
          ran>>

NoFields == [f \in {} |-> 0]
NoCall == [name |-> "none"]

Operand(k) == <<a, b, c>>[k]
Idx == 1..3

NoResults == [x \in Idx |-> [y \in Idx |-> Unset]]

(* Every property of the comparisons is stated for all positions of the    *)
(* operands, so one arrangement of each three objects is enough: the one   *)
(* in which OperandKey does not decrease from a to c.                      *)
OperandKey(o) ==
  IF IsDate(o) THEN (o.year + 1) * 10000 + (o.month + 1) * 100 + (o.day + 1)
  ELSE 100000000

InitDate ==
  /\ a \in DateValues
  /\ b \in Objects
  /\ c \in Objects
  /\ OperandKey(a) <= OperandKey(b)
  /\ OperandKey(b) <= OperandKey(c)
  /\ pcDate = "start"
  /\ eqRes = NoResults
  /\ gtRes = NoResults
  /\ geRes = NoResults
  /\ args = NoFields
  /\ self = NoFields
  /\ start_types = {}
  /\ pc = "idle"
  /\ call = NoCall
  /\ ran = {}

(* Every x == y whose left operand is a Date reaches Date.__eq__.          *)
CallEq ==
  /\ pcDate = "start"
  /\ eqRes' = [x \in Idx |-> [y \in Idx |->
                 IF IsDate(Operand(x)) THEN Date_eq(Operand(x), Operand(y))
                 ELSE Unset]]
  /\ pcDate' = "eq"
  /\ UNCHANGED <<a, b, c, gtRes, geRes, langVars>>

CallGt ==
  /\ pcDate = "eq"
  /\ gtRes' = [x \in Idx |-> [y \in Idx |->
                 IF IsDate(Operand(x)) THEN Date_gt(Operand(x), Operand(y))
                 ELSE Unset]]
  /\ pcDate' = "gt"
  /\ UNCHANGED <<a, b, c, eqRes, geRes, langVars>>

CallGe ==
  /\ pcDate = "gt"
  /\ geRes' = [x \in Idx |-> [y \in Idx |->
                 IF IsDate(Operand(x)) THEN Date_ge(Operand(x), Operand(y))
                 ELSE Unset]]
  /\ pcDate' = "ge"
  /\ UNCHANGED <<a, b, c, eqRes, gtRes, langVars>>

NextDate == CallEq \/ CallGt \/ CallGe

SpecDate == InitDate /\ [][NextDate]_vars

(***************************************************************************)
(* Tensors.  A vector is a sequence and a matrix a sequence of rows, both  *)
(* indexed from 1 where the program indexes from 0.  Scores are integers   *)
(* on a fixed grid; a probability vector is kept exact as the numerators   *)
(* num over one common denominator den.                                    *)
(***************************************************************************)
MaxDates == 2
MaxPassageLen == 2

RECURSIVE SumSeq(_)
SumSeq(v) == IF v = <<>> THEN 0 ELSE v[1] + SumSeq(Tail(v))

RECURSIVE Pow2(_)
Pow2(n) == IF n <= 0 THEN 1 ELSE 2 * Pow2(n - 1)

SetMin(S) == CHOOSE m \in S : \A n \in S : m <= n

Zeros(n) == [k \in 1..n |-> 0]
ZeroMatrix(n) == [i \in 1..n |-> Zeros(n)]

(* x > y on two Dates of the list, as a truth value.                       *)
PyGt(x, y) == Date_gt(x, y).val

(* a variant in which Date would define x < y as the negation of x >= y    *)
mut_PyLt(x, y) == ~Date_ge(x, y).val

(* x < y: Date defines no __lt__, so Python evaluates the reflected        *)
(* y.__gt__(x).                                                            *)
PyLt(x, y) == Date_gt(y, x).val

(***************************************************************************)
(* DropLanguage.compute_date_comparison_matrices: both matrices start as   *)
(* zeros and the nested loops over i and j fill cell k = i * D + j, for    *)
(* k = 0 .. D * D - 1.                                                     *)
(***************************************************************************)
RECURSIVE FillComparisonCells(_, _, _)
FillComparisonCells(mats, date_values, k) ==
  LET D == Len(date_values)
  IN IF k >= D * D THEN mats
     ELSE LET i == (k \div D) + 1
              j == (k % D) + 1
              g == IF PyGt(date_values[i], date_values[j]) THEN 1 ELSE 0
              l == IF PyLt(date_values[i], date_values[j]) THEN 1 ELSE 0
          IN FillComparisonCells(
               [date_gt_mat |-> [mats.date_gt_mat EXCEPT ![i][j] = g],
                date_lt_mat |-> [mats.date_lt_mat EXCEPT ![i][j] = l]],
               date_values, k + 1)

(* the commented-out line 319: the mirrored cell set to the complement     *)
mut_compute_date_comparison_matrices(date_values) ==
  LET D == Len(date_values)
      gt == [i \in 1..D |-> [j \in 1..D |->
               IF i <= j
               THEN (IF PyGt(date_values[i], date_values[j]) THEN 1 ELSE 0)
               ELSE 1 - (IF PyGt(date_values[j], date_values[i]) THEN 1 ELSE 0)]]
  IN [date_gt_mat |-> gt,
      date_lt_mat |-> [i \in 1..D |-> [j \in 1..D |->
               IF PyLt(date_values[i], date_values[j]) THEN 1 ELSE 0]]]

compute_date_comparison_matrices(date_values) ==
  FillComparisonCells(
    [date_gt_mat |-> ZeroMatrix(Len(date_values)),
     date_lt_mat |-> ZeroMatrix(Len(date_values))],
    date_values, 0)

(***************************************************************************)
(* The static method applied to every list of at most MaxDates Dates.      *)
(***************************************************************************)
DateLists == UNION {[1..n -> DateValues] : n \in 0..MaxDates}

InitStatic ==
  /\ args \in {[date_values |-> dv] : dv \in DateLists}
  /\ pc = "static"
  /\ call = NoCall
  /\ ran = {}
  /\ self = NoFields
  /\ start_types = {}
  /\ a = NotADate /\ b = NotADate /\ c = NotADate
  /\ pcDate = "off"
  /\ eqRes = NoResults /\ gtRes = NoResults /\ geRes = NoResults

CallComputeMatrices ==
  /\ pc = "static"
  /\ call.name = "none"
  /\ call' = [name |-> "compute_date_comparison_matrices",
              exc |-> "none",
              ret |-> compute_date_comparison_matrices(args.date_values)]
  /\ UNCHANGED <<args, self, start_types, pc, ran, dateVars>>

NextStatic == CallComputeMatrices

SpecStatic == InitStatic /\ [][NextStatic]_vars

(***************************************************************************)
(* The learned parameter functions the instance calls (ExecutorParameters).*)
(* Both scorers are the dot product of the token representations, which    *)
(* are scalars here.  Dropout is the identity in evaluation mode; in       *)
(* training mode it zeroes the entries its draw picks (parameters.zeroed)  *)
(* and doubles the kept ones (rate 1/2).                                   *)
(***************************************************************************)
dotprod_matrix_attn(q, p) ==
  [i \in 1..Len(q) |-> [j \in 1..Len(p) |-> q[i] * p[j]]]

passage_to_date_attention(p1, p2) ==
  [x \in 1..Len(p1) |-> [y \in 1..Len(p2) |-> p1[x] * p2[y]]]

dropout(parameters, m) ==
  [i \in DOMAIN m |-> [j \in DOMAIN m[i] |->
     IF parameters.training
     THEN (IF <<i, j>> \in parameters.zeroed THEN 0 ELSE 2 * m[i][j])
     ELSE m[i][j]]]

(***************************************************************************)
(* allennlp.nn.util.masked_softmax(vector, mask, memory_efficient=True):   *)
(* the masked entries are filled with -1e32 and an ordinary softmax is     *)
(* taken.  Against any live score the exponential of -1e32 underflows to   *)
(* exactly 0, so a masked entry gets probability 0; when every entry is    *)
(* masked all filled scores are equal and the result is uniform.  The      *)
(* exponential is taken to base 2 on the integer score grid, relative to   *)
(* the least live score, which keeps every numerator an integer.           *)
(***************************************************************************)
masked_softmax(vector, mask) ==
  LET n == Len(vector)
      live == {t \in 1..n : mask[t] = 1}
      least == SetMin({vector[t] : t \in live})
      num == [t \in 1..n |->
                IF live = {} THEN 1
                ELSE IF t \in live THEN Pow2(vector[t] - least)
                ELSE 0]
  IN [num |-> num, den |-> SumSeq(num)]

(***************************************************************************)
(* torch.tanh on the grid: the value n / d is mapped to a multiple of 1/4  *)
(* by x / (1 + |x|), which like tanh is odd, increasing, 0 at 0 and        *)
(* bounded by 1.                                                           *)
(***************************************************************************)
tanh(n, d) ==
  IF n >= 0 THEN (4 * n) \div (d + n) ELSE 0 - ((4 * (0 - n)) \div (d - n))

(* DropLanguage.compute_question_passage_similarity                        *)
compute_question_passage_similarity(inst) ==
  LET question_passage_similarity ==
        dropout(inst.parameters,
                dotprod_matrix_attn(inst.rawemb_question, inst.rawemb_passage))
  IN [q \in DOMAIN question_passage_similarity |->
        masked_softmax(question_passage_similarity[q], inst.passage_mask)]

(* DropLanguage.compute_passage_token2date_similarity                      *)
compute_passage_token2date_similarity(inst) ==
  LET scored == dropout(inst.parameters,
                        passage_to_date_attention(inst.passage, inst.passage))
      plen == Len(inst.passage_mask)
  IN [x \in 1..plen |-> [y \in 1..plen |->
        tanh(scored[x][y] * inst.passage_mask[y] * inst.passage_mask[x], plen)]]

(* DropLanguage.initialize                                                 *)
initialize(inst) ==
  LET mats == compute_date_comparison_matrices(inst.passage_date_values)
  IN [question_passage_attention |-> compute_question_passage_similarity(inst),
      date_gt_mat |-> mats.date_gt_mat,
      date_lt_mat |-> mats.date_lt_mat,
      p2p_t2date_sim_mat |-> compute_passage_token2date_similarity(inst)]

(***************************************************************************)
(* DropLanguage.__init__ past the placeholder return: the fields assigned  *)
(* from the arguments, then those assigned from initialize().              *)
(***************************************************************************)
AssignedFromArgs(ar) ==
  [rawemb_question |-> ar.rawemb_question,
   embedded_question |-> ar.embedded_question,
   encoded_question |-> ar.encoded_question,
   question_mask |-> ar.question_mask,
   rawemb_passage |-> ar.rawemb_passage,
   embedded_passage |-> ar.embedded_passage,
   encoded_passage |-> ar.encoded_passage,
   passage_mask |-> ar.passage_mask,
   passage_tokenidx2dateidx |-> ar.passage_tokenidx2dateidx,
   passage_date_values |-> ar.passage_date_values,
   num_passage_dates |-> Len(ar.passage_date_values),
   parameters |-> ar.parameters,
   passage |-> IF ar.passage_to_use = "embedded" THEN ar.embedded_passage
               ELSE ar.encoded_passage,
   question |-> IF ar.question_to_use = "embedded" THEN ar.embedded_question
                ELSE ar.encoded_question]

ConstructedFields(ar) ==
  LET inst == AssignedFromArgs(ar)
      initialization_returns == initialize(inst)
      computed ==
        [question_passage_attention |->
           initialization_returns.question_passage_attention,
         date_lt_mat |-> initialization_returns.date_lt_mat,
         date_gt_mat |-> initialization_returns.date_gt_mat,
         passage_passage_token2date_similarity |->
           initialization_returns.p2p_t2date_sim_mat]
  IN inst @@ computed

(***************************************************************************)
(* Tensor.scatter_add_(0, index, src) on a vector: out[index[t]] grows by  *)
(* src[t] for every t in turn; an index outside the vector raises.         *)
(***************************************************************************)
RECURSIVE mut_scatter(_, _, _, _)
mut_scatter(out, index, src, t) ==
  IF t > Len(index) THEN [exc |-> "none", out |-> out]
  ELSE IF index[t] < 0 \/ index[t] >= Len(out)
       THEN [exc |-> "RuntimeError", out |-> out]
  ELSE mut_scatter([out EXCEPT ![index[t] + 1] = src[t]], index, src, t + 1)

RECURSIVE scatter_add(_, _, _, _)
scatter_add(out, index, src, t) ==
  IF t > Len(index) THEN [exc |-> "none", out |-> out]
  ELSE IF index[t] < 0 \/ index[t] >= Len(out)
       THEN [exc |-> "RuntimeError", out |-> out]
  ELSE scatter_add([out EXCEPT ![index[t] + 1] = @ + src[t]], index, src, t + 1)

(***************************************************************************)
(* DropLanguage.compute_date_scores.  The result carries the local         *)
(* variables of the run next to the returned date_distribution.            *)
(***************************************************************************)
compute_date_scores(inst, passage_attention) ==
  LET plen == Len(passage_attention)
      passage_passage_tokendate_attention ==
        [x \in 1..plen |-> [y \in 1..plen |->
           inst.passage_passage_token2date_similarity[x][y] * passage_attention[x]]]
      passage_datetoken_attention ==
        [y \in 1..plen |->
           SumSeq([x \in 1..plen |-> passage_passage_tokendate_attention[x][y]])]
      passage_tokenidx2dateidx_mask ==
        [t \in 1..plen |-> IF inst.passage_tokenidx2dateidx[t] > -1 THEN 1 ELSE 0]
      masked_passage_tokenidx2dateidx ==
        [t \in 1..plen |->
           passage_tokenidx2dateidx_mask[t] * inst.passage_tokenidx2dateidx[t]]
      masked_passage_datetoken_probs ==
        masked_softmax(passage_datetoken_attention, passage_tokenidx2dateidx_mask)
      scattered ==
        scatter_add(Zeros(inst.num_passage_dates),
                    masked_passage_tokenidx2dateidx,
                    masked_passage_datetoken_probs.num, 1)
  IN [exc |-> scattered.exc,
      masked_passage_datetoken_probs |-> masked_passage_datetoken_probs,
      date_distribution |-> [num |-> scattered.out,
                             den |-> masked_passage_datetoken_probs.den]]

(***************************************************************************)
(* DropLanguage.expected_date_comparison: the sum of the comparison matrix *)
(* times the outer product of the two distributions, as a fraction.        *)
(***************************************************************************)
ExpectedBool(mat, date_distribution_1, date_distribution_2) ==
  LET D == Len(date_distribution_1.num)
      joint_dist == [i \in 1..D |-> [j \in 1..D |->
                       date_distribution_1.num[i] * date_distribution_2.num[j]]]
  IN [num |-> SumSeq([i \in 1..D |->
                        SumSeq([j \in 1..D |-> mat[i][j] * joint_dist[i][j]])]),
      den |-> date_distribution_1.den * date_distribution_2.den]

(* the matrices of the two comparisons exchanged                           *)
mut_expected_date_comparison(inst, date_distribution_1, date_distribution_2, comparison) ==
  IF comparison = "greater"
  THEN [exc |-> "none",
        val |-> ExpectedBool(inst.date_lt_mat, date_distribution_1, date_distribution_2)]
  ELSE IF comparison = "lesser"
  THEN [exc |-> "none",
        val |-> ExpectedBool(inst.date_gt_mat, date_distribution_1, date_distribution_2)]
  ELSE [exc |-> "NotImplementedError", val |-> [num |-> 0, den |-> 1]]

expected_date_comparison(inst, date_distribution_1, date_distribution_2, comparison) ==
  IF comparison = "greater"
  THEN [exc |-> "none",
        val |-> ExpectedBool(inst.date_gt_mat, date_distribution_1, date_distribution_2)]
  ELSE IF comparison = "lesser"
  THEN [exc |-> "none",
        val |-> ExpectedBool(inst.date_lt_mat, date_distribution_1, date_distribution_2)]
  ELSE [exc |-> "NotImplementedError", val |-> [num |-> 0, den |-> 1]]

(***************************************************************************)
(* Values of the language's types.                                         *)
(***************************************************************************)
PassageAttention(passage_attention) ==
  [cls |-> "PassageAttention", _value |-> passage_attention]

PassageAttention_answer(passage_attention, loss) ==
  [cls |-> "PassageAttention_answer", _value |-> passage_attention, loss |-> loss]

(* tensor * mask, element by element                                       *)
Masked(v, mask) == [t \in DOMAIN v |-> v[t] * mask[t]]

(* w * v1 + (1 - w) * v2 for a fraction w, over w's denominator            *)
Blend(w, v1, v2) ==
  [num |-> [t \in DOMAIN v1 |-> w.num * v1[t] + (w.den - w.num) * v2[t]],
   den |-> w.den]

(* 1 - w                                                                   *)
OneMinus(w) == [num |-> w.den - w.num, den |-> w.den]

(* The entropy and KL terms are real logarithms of the two distributions;  *)
(* the loss is kept as the expression it is computed from.                 *)
DateLoss(date_distribution_1, date_distribution_2) ==
  [terms |-> <<"dist1_entropy", "dist2_entropy", "kl_div_neg_1_2", "kl_div_neg_2_1">>,
   dist1 |-> date_distribution_1,
   dist2 |-> date_distribution_2]

(***************************************************************************)
(* DropLanguage.compare_date_greater_than and compare_date_lesser_than.    *)
(* locals.weight_1 and locals.weight_2 are the factors that multiply the   *)
(* masked attention 1 and attention 2 in average_passage_distribution.     *)
(***************************************************************************)
CompareRaised(e) == [exc |-> e]

compare_date_greater_than(inst, passage_attn_1, passage_attn_2) ==
  LET passage_attention_1 == Masked(passage_attn_1._value, inst.passage_mask)
      passage_attention_2 == Masked(passage_attn_2._value, inst.passage_mask)
      scores_1 == compute_date_scores(inst, passage_attention_1)
      scores_2 == compute_date_scores(inst, passage_attention_2)
      date_distribution_1 == scores_1.date_distribution
      date_distribution_2 == scores_2.date_distribution
      expected == expected_date_comparison(inst, date_distribution_1,
                                           date_distribution_2, "greater")
      prob_date1_greater == expected.val
      average_passage_distribution ==
        Blend(prob_date1_greater, passage_attention_1, passage_attention_2)
  IN IF scores_1.exc # "none" THEN CompareRaised(scores_1.exc)
     ELSE IF scores_2.exc # "none" THEN CompareRaised(scores_2.exc)
     ELSE IF expected.exc # "none" THEN CompareRaised(expected.exc)
     ELSE [exc |-> "none",
           locals |-> [passage_attention_1 |-> passage_attention_1,
                       passage_attention_2 |-> passage_attention_2,
                       date_distribution_1 |-> date_distribution_1,
                       date_distribution_2 |-> date_distribution_2,
                       weight_1 |-> prob_date1_greater,
                       weight_2 |-> OneMinus(prob_date1_greater)],
           ret |-> PassageAttention_answer(
                     average_passage_distribution,
                     DateLoss(date_distribution_1, date_distribution_2))]

compare_date_lesser_than(inst, passage_attn_1, passage_attn_2) ==
  LET passage_attention_1 == Masked(passage_attn_1._value, inst.passage_mask)
      passage_attention_2 == Masked(passage_attn_2._value, inst.passage_mask)
      scores_1 == compute_date_scores(inst, passage_attention_1)
      scores_2 == compute_date_scores(inst, passage_attention_2)
      date_distribution_1 == scores_1.date_distribution
      date_distribution_2 == scores_2.date_distribution
      expected == expected_date_comparison(inst, date_distribution_1,
                                           date_distribution_2, "lesser")
      prob_date1_greater == expected.val
      prob_date1_lesser == OneMinus(prob_date1_greater)
      average_passage_distribution ==
        Blend(prob_date1_lesser, passage_attention_1, passage_attention_2)
  IN IF scores_1.exc # "none" THEN CompareRaised(scores_1.exc)
     ELSE IF scores_2.exc # "none" THEN CompareRaised(scores_2.exc)
     ELSE IF expected.exc # "none" THEN CompareRaised(expected.exc)
     ELSE [exc |-> "none",
           locals |-> [passage_attention_1 |-> passage_attention_1,
                       passage_attention_2 |-> passage_attention_2,
                       date_distribution_1 |-> date_distribution_1,
                       date_distribution_2 |-> date_distribution_2,
                       weight_1 |-> prob_date1_lesser,
                       weight_2 |-> OneMinus(prob_date1_lesser)],
           ret |-> PassageAttention_answer(
                     average_passage_distribution,
                     DateLoss(date_distribution_1, date_distribution_2))]

(***************************************************************************)
(* find_QuestionAttention and find_PassageAttention.  The attention over   *)
(* the passage is the sum over the question tokens of the rows of          *)
(* question_passage_attention, each weighted by the masked question        *)
(* attention; the rows are fractions and the sum is taken over the product *)
(* of their denominators.                                                  *)
(***************************************************************************)
QuestionAttention(question_attention) ==
  [cls |-> "QuestionAttention", _value |-> question_attention]

RECURSIVE ProductSeq(_)
ProductSeq(v) == IF v = <<>> THEN 1 ELSE v[1] * ProductSeq(Tail(v))

find_QuestionAttention(inst, question_attention) ==
  [exc |-> "none", ret |-> QuestionAttention(question_attention)]

find_PassageAttention(inst, question_attention) ==
  LET masked_question_attention == Masked(question_attention, inst.question_mask)
      rows == inst.question_passage_attention
      qlen == Len(rows)
      plen == Len(inst.passage_mask)
      den == ProductSeq([q \in 1..qlen |-> rows[q].den])
      question_passage_attention ==
        [q \in 1..qlen |-> [t \in 1..plen |->
           rows[q].num[t] * (den \div rows[q].den) * masked_question_attention[q]]]
      passage_attention ==
        [num |-> [t \in 1..plen |->
                    SumSeq([q \in 1..qlen |-> question_passage_attention[q][t]])],
         den |-> den]
  IN [exc |-> "none", ret |-> PassageAttention(passage_attention)]

(***************************************************************************)
(* find_passageSpanAnswer.  An entry of a logit or log-probability tensor  *)
(* is either the fill value -1e32 (Sentinel) or a record num, den: in a    *)
(* logit tensor the number num / den, in a log-probability tensor the      *)
(* logarithm of the probability num / den.                                 *)
(***************************************************************************)
Sentinel == [sentinel |-> TRUE, num |-> 0, den |-> 1]
Value(n) == [sentinel |-> FALSE, num |-> n, den |-> 1]
LogProb(num, den) == [sentinel |-> FALSE, num |-> num, den |-> den]

(* a variant that leaves the tensor as it is                               *)
mut_replace_masked_values(tensor, mask, replace_with) == tensor

(* allennlp.nn.util.replace_masked_values                                  *)
replace_masked_values(tensor, mask, replace_with) ==
  [t \in DOMAIN tensor |-> IF mask[t] = 1 THEN tensor[t] ELSE replace_with]

(* allennlp.nn.util.masked_log_softmax: log(mask + 1e-45) is added to the  *)
(* vector and a log-softmax is taken.  A masked entry ends with            *)
(* probability 0 next to any live entry; when all entries are masked, all  *)
(* shifted scores are equal and the result is the logarithm of the uniform *)
(* distribution.  The exponential is taken to base 2 as in masked_softmax. *)
masked_log_softmax(vector, mask) ==
  LET n == Len(vector)
      live == {t \in 1..n : mask[t] = 1}
      least == SetMin({vector[t].num : t \in live})
      weight == [t \in 1..n |->
                   IF live = {} THEN 1
                   ELSE IF t \in live THEN Pow2(vector[t].num - least)
                   ELSE 0]
  IN [t \in 1..n |-> LogProb(weight[t], SumSeq(weight))]

PassageSpanAnswer(start_log_probs, end_log_probs, start_logits, end_logits, loss) ==
  [cls |-> "PassageSpanAnswer",
   start_logits |-> start_logits,
   end_logits |-> end_logits,
   _value |-> <<start_log_probs, end_log_probs>>,
   loss |-> loss]

(* passage_span_logits is what parameters.passage_startend_predictor       *)
(* returns for the encoded scaled attentions: one pair of numbers, start   *)
(* and end, for each passage token.                                        *)
find_passageSpanAnswer(inst, passage_attention, passage_span_logits) ==
  LET passage_attn ==
        [num |-> Masked(passage_attention._value.num, inst.passage_mask),
         den |-> passage_attention._value.den]
      plen == Len(passage_span_logits)
      span_start_logits ==
        replace_masked_values([t \in 1..plen |-> Value(passage_span_logits[t][1])],
                              inst.passage_mask, Sentinel)
      span_end_logits ==
        replace_masked_values([t \in 1..plen |-> Value(passage_span_logits[t][2])],
                              inst.passage_mask, Sentinel)
      span_start_log_probs ==
        replace_masked_values(masked_log_softmax(span_start_logits, inst.passage_mask),
                              inst.passage_mask, Sentinel)
      span_end_log_probs ==
        replace_masked_values(masked_log_softmax(span_end_logits, inst.passage_mask),
                              inst.passage_mask, Sentinel)
      loss == passage_attention.loss
  IN [exc |-> "none",
      locals |-> [passage_attn |-> passage_attn],
      ret |-> PassageSpanAnswer(span_start_log_probs, span_end_log_probs,
                                span_start_logits, span_end_logits, loss)]

(***************************************************************************)
(* The inputs of one instance.  A passage has 1..MaxPassageLen tokens and  *)
(* a one-token question; its mask is 1 on a prefix of the tokens (padding  *)
(* follows the text); the three representations of a token coincide and    *)
(* are 1 everywhere or alternate between 1 and -1; the list holds at most  *)
(* MaxDates different Dates and every token maps to -1 or to an index of   *)
(* the list.                                                               *)
(***************************************************************************)
None == [is_none |-> TRUE]
Tensor(name) == [is_none |-> FALSE, tensor |-> name]

InstanceDates == {Date(2001, 1, 1), Date(2002, 1, 1), Date(2001, -1, 1)}

(* The lists of different Dates.  Every token may map to every index of    *)
(* the list, so one order of each set of Dates stands for all its orders:  *)
(* the one in which OperandKey increases.                                  *)
InstanceDateLists ==
  {dv \in UNION {[1..n -> InstanceDates] : n \in 0..MaxDates} :
     \A i \in DOMAIN dv, j \in DOMAIN dv :
       i < j => OperandKey(dv[i]) < OperandKey(dv[j])}

PassageLengths == 1..MaxPassageLen

Encodings(plen) ==
  {[t \in 1..plen |-> 1], [t \in 1..plen |-> IF t % 2 = 1 THEN 1 ELSE -1]}

PrefixMasks(plen) == {[t \in 1..plen |-> IF t <= k THEN 1 ELSE 0] : k \in 0..plen}

ParameterSettings ==
  {[training |-> FALSE, zeroed |-> {}], [training |-> TRUE, zeroed |-> {<<1, 1>>}]}

LanguageArgs ==
  UNION {
    {[rawemb_question |-> <<1>>,
      embedded_question |-> Tensor("embedded_question"),
      encoded_question |-> Tensor("encoded_question"),
      rawemb_passage |-> enc,
      embedded_passage |-> enc,
      encoded_passage |-> enc,
      question_mask |-> <<1>>,
      passage_mask |-> mask,
      passage_tokenidx2dateidx |-> t2d,
      passage_date_values |-> dv,
      parameters |-> prm,
      start_types |-> None,
      question_to_use |-> "encoded",
      passage_to_use |-> "encoded"] :
        enc \in Encodings(plen),
        mask \in PrefixMasks(plen),
        t2d \in [1..plen -> -1..(Len(dv) - 1)],
        prm \in ParameterSettings} :
    plen \in PassageLengths, dv \in InstanceDateLists}

(* get_empty_language_object: every argument None                          *)
EmptyLanguageArgs ==
  [rawemb_question |-> None,
   embedded_question |-> None,
   encoded_question |-> None,
   rawemb_passage |-> None,
   embedded_passage |-> None,
   encoded_passage |-> None,
   question_mask |-> None,
   passage_mask |-> None,
   passage_tokenidx2dateidx |-> None,
   passage_date_values |-> None,
   parameters |-> None,
   start_types |-> None,
   question_to_use |-> "encoded",
   passage_to_use |-> "encoded"]

(* Calls that pass no embedded question but real values elsewhere, with    *)
(* the start types left to the default or given.                           *)
StartTypeSettings ==
  {None, [is_none |-> FALSE, types |-> {"PassageSpanAnswer"}]}

PlaceholderArgs ==
  {[ar EXCEPT !.embedded_question = None, !.start_types = st] :
     ar \in LanguageArgs, st \in StartTypeSettings}

(* The instances of the five-token scenario: the only date token is index  *)
(* 2 and maps to date index 0 of a single date.                            *)
FiveTokenArgs ==
  {[rawemb_question |-> <<1>>,
    embedded_question |-> Tensor("embedded_question"),
    encoded_question |-> Tensor("encoded_question"),
    rawemb_passage |-> enc,
    embedded_passage |-> enc,
    encoded_passage |-> enc,
    question_mask |-> <<1>>,
    passage_mask |-> mask,
    passage_tokenidx2dateidx |-> <<-1, -1, 0, -1, -1>>,
    passage_date_values |-> <<d>>,
    parameters |-> prm,
    start_types |-> None,
    question_to_use |-> "encoded",
    passage_to_use |-> "encoded"] :
      enc \in Encodings(5), mask \in PrefixMasks(5),
      d \in InstanceDates, prm \in ParameterSettings}

(* The attentions handed to the predicates: all weight on one token, or    *)
(* the same weight on every token.                                         *)
Attentions(plen) ==
  {[t \in 1..plen |-> IF t = k THEN 1 ELSE 0] : k \in 1..plen}
    \cup {[t \in 1..plen |-> 1]}

(* The question attentions handed to the two find predicates as a side     *)
(* argument, one weight for each question token.                           *)
QuestionAttentions(qlen) == {[q \in 1..qlen |-> w] : w \in 0..1}

(* What the span predictor may return: the same logits everywhere, or      *)
(* logits that rise or fall along the passage.                             *)
SpanLogits(plen) ==
  {[t \in 1..plen |-> <<0, 0>>],
   [t \in 1..plen |-> <<t, 0 - t>>],
   [t \in 1..plen |-> <<0 - t, 1>>]}

Init ==
  /\ \/ args \in LanguageArgs \cup FiveTokenArgs
     \/ args \in PlaceholderArgs
     \/ args = EmptyLanguageArgs
  /\ self = NoFields
  /\ start_types = {}
  /\ pc = "new"
  /\ call = NoCall
  /\ ran = {}
  /\ a = NotADate /\ b = NotADate /\ c = NotADate
  /\ pcDate = "off"
  /\ eqRes = NoResults /\ gtRes = NoResults /\ geRes = NoResults

(* The methods DropLanguage.__init__ runs past the placeholder return:     *)
(* initialize() and the three precomputations it calls.                    *)
RanByInitialize ==
  {"initialize", "compute_date_comparison_matrices",
   "compute_question_passage_similarity",
   "compute_passage_token2date_similarity"}

(* a variant whose placeholder test reads encoded_question                 *)
mut_Construct ==
  /\ pc = "new"
  /\ start_types' = IF args.start_types.is_none
                    THEN {"PassageSpanAnswer", "QuestionSpanAnswer"}
                    ELSE args.start_types.types
  /\ IF args.encoded_question.is_none
     THEN /\ self' = self
          /\ ran' = {"__init__"}
          /\ pc' = "placeholder"
     ELSE /\ self' = ConstructedFields(args)
          /\ ran' = {"__init__"} \cup RanByInitialize
          /\ pc' = "ready"
  /\ UNCHANGED <<args, call, dateVars>>

(* DropLanguage.__init__                                                   *)
Construct ==
  /\ pc = "new"
  /\ start_types' = IF args.start_types.is_none
                    THEN {"PassageSpanAnswer", "QuestionSpanAnswer"}
                    ELSE args.start_types.types
  /\ IF args.embedded_question.is_none
     THEN /\ self' = self
          /\ ran' = {"__init__"}
          /\ pc' = "placeholder"
     ELSE /\ self' = ConstructedFields(args)
          /\ ran' = {"__init__"} \cup RanByInitialize
          /\ pc' = "ready"
  /\ UNCHANGED <<args, call, dateVars>>

Ready == pc = "ready" /\ call.name = "none"

PassageLen == Len(self.passage_mask)

(* compute_date_scores(passage_attention), as the comparisons call it      *)
CallComputeDateScores ==
  /\ Ready
  /\ \E attn \in Attentions(PassageLen) :
       LET r == compute_date_scores(self, attn)
       IN call' = [name |-> "compute_date_scores",
                   args |-> <<attn>>,
                   args_after |-> <<attn>>,
                   exc |-> r.exc,
                   locals |-> [masked_passage_datetoken_probs |->
                                 r.masked_passage_datetoken_probs],
                   ret |-> r.date_distribution]
  /\ UNCHANGED <<args, self, start_types, pc, ran, dateVars>>

(* a variant that masks the first attention in place, overwriting the      *)
(* payload of the value passed                                             *)
mut_CallCompareDateGreaterThan ==
  /\ Ready
  /\ \E attn1 \in Attentions(PassageLen), attn2 \in Attentions(PassageLen) :
       LET pa1 == PassageAttention(attn1)
           pa2 == PassageAttention(attn2)
       IN call' = [name |-> "compare_date_greater_than", args |-> <<pa1, pa2>>,
                   args_after |->
                     <<PassageAttention(Masked(attn1, self.passage_mask)), pa2>>]
                    @@ compare_date_greater_than(self, pa1, pa2)
  /\ UNCHANGED <<args, self, start_types, pc, ran, dateVars>>

CallCompareDateGreaterThan ==
  /\ Ready
  /\ \E attn1 \in Attentions(PassageLen), attn2 \in Attentions(PassageLen) :
       LET pa1 == PassageAttention(attn1)
           pa2 == PassageAttention(attn2)
       IN call' = [name |-> "compare_date_greater_than", args |-> <<pa1, pa2>>,
                   args_after |-> <<pa1, pa2>>]
                    @@ compare_date_greater_than(self, pa1, pa2)
  /\ UNCHANGED <<args, self, start_types, pc, ran, dateVars>>

CallCompareDateLesserThan ==
  /\ Ready
  /\ \E attn1 \in Attentions(PassageLen), attn2 \in Attentions(PassageLen) :
       LET pa1 == PassageAttention(attn1)
           pa2 == PassageAttention(attn2)
       IN call' = [name |-> "compare_date_lesser_than", args |-> <<pa1, pa2>>,
                   args_after |-> <<pa1, pa2>>]
                    @@ compare_date_lesser_than(self, pa1, pa2)
  /\ UNCHANGED <<args, self, start_types, pc, ran, dateVars>>

CallFindQuestionAttention ==
  /\ Ready
  /\ \E qa \in QuestionAttentions(Len(self.question_mask)) :
       call' = [name |-> "find_QuestionAttention", args |-> <<qa>>,
                args_after |-> <<qa>>]
                 @@ find_QuestionAttention(self, qa)
  /\ UNCHANGED <<args, self, start_types, pc, ran, dateVars>>

CallFindPassageAttention ==
  /\ Ready
  /\ \E qa \in QuestionAttentions(Len(self.question_mask)) :
       call' = [name |-> "find_PassageAttention", args |-> <<qa>>,
                args_after |-> <<qa>>]
                 @@ find_PassageAttention(self, qa)
  /\ UNCHANGED <<args, self, start_types, pc, ran, dateVars>>

(* find_passageSpanAnswer on an attention that a date comparison returned  *)
CallFindPassageSpanAnswer ==
  /\ Ready
  /\ \E attn \in Attentions(PassageLen), logits \in SpanLogits(PassageLen) :
       LET compared == compare_date_greater_than(
                         self, PassageAttention(attn),
                         PassageAttention([t \in 1..PassageLen |-> 1]))
           r == find_passageSpanAnswer(self, compared.ret, logits)
       IN /\ compared.exc = "none"
          /\ call' = [name |-> "find_passageSpanAnswer",
                      args |-> <<compared.ret>>,
                      args_after |-> <<compared.ret>>]
                       @@ r
  /\ UNCHANGED <<args, self, start_types, pc, ran, dateVars>>

(* The call has returned or raised and the caller has taken the outcome.   *)
ReturnToCaller ==
  /\ pc = "ready"
  /\ call.name # "none"
  /\ call' = NoCall
  /\ UNCHANGED <<args, self, start_types, pc, ran, dateVars>>

Next ==
  \/ Construct
  \/ CallComputeDateScores
  \/ CallCompareDateGreaterThan
  \/ CallCompareDateLesserThan
  \/ CallFindQuestionAttention
  \/ CallFindPassageAttention
  \/ CallFindPassageSpanAnswer
  \/ ReturnToCaller

Spec == Init /\ [][Next]_vars

(***************************************************************************)
(* The grammar of the language.  A predicate is a method decorated with    *)
(* @predicate or @predicate_with_side_args; its parameters other than self *)
(* and the side arguments, and its return annotation, are its signature.   *)
(* A program is a predicate applied to as many programs as it has          *)
(* parameters; it is well typed when the type of every argument is the     *)
(* type of the parameter it fills, and then has the predicate's return     *)
(* type.  SpecGrammar builds programs from the inside out, up to MaxDepth  *)
(* applications deep, typed or not.                                        *)
(***************************************************************************)
MaxDepth == 3

(* find_passageSpanAnswer declared on a PassageAttention, as the           *)
(* comparisons are                                                         *)
mut_Predicates ==
  {[name |-> "find_QuestionAttention", params |-> <<>>,
    returns |-> "QuestionAttention"],
   [name |-> "find_PassageAttention", params |-> <<>>,
    returns |-> "PassageAttention"],
   [name |-> "compare_date_greater_than",
    params |-> <<"PassageAttention", "PassageAttention">>,
    returns |-> "PassageAttention_answer"],
   [name |-> "compare_date_lesser_than",
    params |-> <<"PassageAttention", "PassageAttention">>,
    returns |-> "PassageAttention_answer"],
   [name |-> "find_passageSpanAnswer",
    params |-> <<"PassageAttention">>,
    returns |-> "PassageSpanAnswer"]}

Predicates ==
  {[name |-> "find_QuestionAttention", params |-> <<>>,
    returns |-> "QuestionAttention"],
   [name |-> "find_PassageAttention", params |-> <<>>,
    returns |-> "PassageAttention"],
   [name |-> "compare_date_greater_than",
    params |-> <<"PassageAttention", "PassageAttention">>,
    returns |-> "PassageAttention_answer"],
   [name |-> "compare_date_lesser_than",
    params |-> <<"PassageAttention", "PassageAttention">>,
    returns |-> "PassageAttention_answer"],
   [name |-> "find_passageSpanAnswer",
    params |-> <<"PassageAttention_answer">>,
    returns |-> "PassageSpanAnswer"]}

Signature(name) == CHOOSE p \in Predicates : p.name = name

Apply(name, children) == [pred |-> name, children |-> children]

SetMax(S) == CHOOSE m \in S : \A n \in S : n <= m

(* the number of applications on the longest path of a program             *)
RECURSIVE Depth(_)
Depth(prog) ==
  IF prog.children = <<>> THEN 1
  ELSE 1 + SetMax({Depth(prog.children[k]) : k \in 1..Len(prog.children)})

(* the type of a program, or "ill-typed"                                   *)
RECURSIVE TypeOf(_)
TypeOf(prog) ==
  LET sig == Signature(prog.pred)
  IN IF Len(prog.children) # Len(sig.params) THEN "ill-typed"
     ELSE IF \A k \in 1..Len(sig.params) :
               TypeOf(prog.children[k]) = sig.params[k]
          THEN sig.returns
          ELSE "ill-typed"

Arity(n) == {p \in Predicates : Len(p.params) = n}

(* the programs at most two applications deep                              *)
LeafPrograms == {Apply(p.name, <<>>) : p \in Arity(0)}

SmallPrograms ==
  LeafPrograms
    \cup {Apply(p.name, <<x>>) : p \in Arity(1), x \in LeafPrograms}
    \cup {Apply(p.name, <<x, y>>) :
            p \in Arity(2), x \in LeafPrograms, y \in LeafPrograms}

InitGrammar ==
  /\ call \in {[name |-> "program", prog |-> x] : x \in LeafPrograms}
  /\ start_types = {"PassageSpanAnswer", "QuestionSpanAnswer"}
  /\ pc = "grammar"
  /\ args = NoFields
  /\ self = NoFields
  /\ ran = {}
  /\ a = NotADate /\ b = NotADate /\ c = NotADate
  /\ pcDate = "off"
  /\ eqRes = NoResults /\ gtRes = NoResults /\ geRes = NoResults

(* a predicate of one parameter applied to the program built so far        *)
ApplyToOne ==
  /\ pc = "grammar"
  /\ Depth(call.prog) < MaxDepth
  /\ \E p \in Arity(1) :
       call' = [call EXCEPT !.prog = Apply(p.name, <<call.prog>>)]
  /\ UNCHANGED <<args, self, start_types, pc, ran, dateVars>>

(* a predicate of two parameters applied to the program built so far and   *)
(* a small program, in either order                                        *)
ApplyToTwo ==
  /\ pc = "grammar"
  /\ Depth(call.prog) < MaxDepth
  /\ \E p \in Arity(2), other \in SmallPrograms :
       \/ call' = [call EXCEPT !.prog = Apply(p.name, <<call.prog, other>>)]
       \/ call' = [call EXCEPT !.prog = Apply(p.name, <<other, call.prog>>)]
  /\ UNCHANGED <<args, self, start_types, pc, ran, dateVars>>

NextGrammar == ApplyToOne \/ ApplyToTwo

SpecGrammar == InitGrammar /\ [][NextGrammar]_vars

(***************************************************************************)
(* Properties of the Date comparisons, checked under SpecDate.             *)
(***************************************************************************)
Fields == {"year", "month", "day"}

DatePair(x, y) == IsDate(Operand(x)) /\ IsDate(Operand(y))

FullySpecified(o) == IsDate(o) /\ \A f \in Fields : o[f] # Unknown

EqDone == pcDate \in {"eq", "gt", "ge"}
GtDone == pcDate \in {"gt", "ge"}

(* a == b returned True / a > b returned True                              *)
IsEq(x, y) == eqRes[x][y] = Return(TRUE)
IsGt(x, y) == gtRes[x][y] = Return(TRUE)

C1_Example ==
  /\ Date_eq(Date(2018, -1, -1), Date(2018, 2, 3)) = Return(TRUE)
  /\ Date_eq(Date(2018, -1, -1), Date(2018, 4, 5)) = Return(TRUE)
  /\ Date_eq(Date(2018, 2, 3), Date(2018, 4, 5)) = Return(FALSE)

(* C1: a == b holds iff for each of year, month, day the two values are    *)
(* equal or at least one of them is the unknown sentinel -1; the three     *)
(* Dates of the spec's example show that this equality is not transitive.  *)
C1_EqualityFieldwise ==
  /\ C1_Example
  /\ EqDone =>
       \A x \in Idx, y \in Idx :
         DatePair(x, y) =>
           eqRes[x][y] =
             Return(\A f \in Fields :
                      \/ Operand(x)[f] = Operand(y)[f]
                      \/ Operand(x)[f] = Unknown
                      \/ Operand(y)[f] = Unknown)

(* C1 witness: operands with a == b and a == c but not b == c.             *)
C1_NonTransitiveTriple ==
  /\ EqDone
  /\ DatePair(2, 3)
  /\ IsEq(1, 2) /\ IsEq(1, 3)
  /\ eqRes[2][3] = Return(FALSE)

(* C2: on Dates without unknown fields equality is transitive and > is a   *)
(* strict total order: irreflexive, transitive, and exactly one of a > b,  *)
(* b > a, a == b holds for every pair.                                     *)
C2_TotalOrderWhenSpecified ==
  (GtDone /\ \A k \in Idx : FullySpecified(Operand(k))) =>
    /\ \A x \in Idx, y \in Idx, z \in Idx :
         (IsEq(x, y) /\ IsEq(y, z)) => IsEq(x, z)
    /\ \A x \in Idx : ~IsGt(x, x)
    /\ \A x \in Idx, y \in Idx, z \in Idx :
         (IsGt(x, y) /\ IsGt(y, z)) => IsGt(x, z)
    /\ \A x \in Idx, y \in Idx :
         /\ IsGt(x, y) \/ IsGt(y, x) \/ IsEq(x, y)
         /\ ~(IsGt(x, y) /\ IsGt(y, x))
         /\ ~(IsGt(x, y) /\ IsEq(x, y))
         /\ ~(IsGt(y, x) /\ IsEq(x, y))

(* C2 witness: three fully specified Dates in a chain c > b > a that is    *)
(* decided at the day between b and a and at the year between c and b.     *)
C2_SpecifiedChain ==
  /\ GtDone
  /\ \A k \in Idx : FullySpecified(Operand(k))
  /\ IsGt(3, 2) /\ IsGt(2, 1) /\ IsGt(3, 1)
  /\ a.year = b.year /\ a.month = b.month /\ a.day # b.day
  /\ b.year # c.year

(* C3: a > b and b > a are never both true, unknown fields included.       *)
C3_GtAsymmetric ==
  GtDone =>
    \A x \in Idx, y \in Idx :
      DatePair(x, y) => ~(IsGt(x, y) /\ IsGt(y, x))

(* C3 witness: a pair with an unknown field on one side only, compared in  *)
(* both directions, one of which is True.                                  *)
C3_UnknownPairCompared ==
  /\ GtDone
  /\ DatePair(1, 2)
  /\ a.year = Unknown /\ b.year # Unknown
  /\ IsGt(2, 1)
  /\ gtRes[1][2] = Return(FALSE)

ExactlyOneUnknown(u, v) == (u = Unknown) # (v = Unknown)

C4_Example ==
  /\ Date_gt(Date(2020, -1, 1), Date(2020, 6, 1)) = Return(FALSE)
  /\ Date_gt(Date(2020, 6, 1), Date(2020, -1, 1)) = Return(TRUE)

KnownYear(o) == [o EXCEPT !.year = 2001]

(* C5: with both years unknown the result is the one the months and days   *)
(* give, as for equal known years; with the years tied and both months     *)
(* unknown, or years and months tied and both days unknown, a > b is       *)
(* False, and it is a returned value, not an error.                        *)
C5_BothUnknownProceeds ==
  GtDone =>
    \A x \in Idx, y \in Idx :
      DatePair(x, y) =>
        LET s == Operand(x)
            o == Operand(y)
        IN /\ gtRes[x][y].exc = "none"
           /\ (s.year = Unknown /\ o.year = Unknown) =>
                gtRes[x][y] = Date_gt(KnownYear(s), KnownYear(o))
           /\ (s.year = o.year /\ s.month = Unknown /\ o.month = Unknown) =>
                gtRes[x][y] = Return(FALSE)
           /\ (/\ s.year = o.year /\ s.month = o.month
               /\ s.day = Unknown /\ o.day = Unknown) =>
                gtRes[x][y] = Return(FALSE)

(* C5 witness: all years unknown; a and b have both months unknown and     *)
(* different known days, and neither is greater; c has a known month and   *)
(* is greater than b.                                                      *)
C5_DecidedBelowUnknownYear ==
  /\ GtDone
  /\ DatePair(2, 3)
  /\ a.year = Unknown /\ b.year = Unknown /\ c.year = Unknown
  /\ a.month = Unknown /\ b.month = Unknown /\ c.month # Unknown
  /\ IsGt(3, 2)
  /\ a.day # b.day /\ a.day # Unknown /\ b.day # Unknown
  /\ gtRes[1][2] = Return(FALSE) /\ gtRes[2][1] = Return(FALSE)

(***************************************************************************)
(* Properties of the comparison matrices, checked under SpecStatic.        *)
(***************************************************************************)
MatricesComputed == call.name = "compute_date_comparison_matrices"

(* C6: for the list of D Dates the result is two D x D matrices over       *)
(* {0, 1} with gt[i][j] = 1 iff date[i] > date[j] and lt[i][j] = 1 iff     *)
(* date[i] < date[j] (date[j]'s > applied to date[i]); both are empty      *)
(* when D = 0.                                                             *)
C6_ComparisonMatrices ==
  MatricesComputed =>
    LET dv == args.date_values
        D == Len(dv)
        gt == call.ret.date_gt_mat
        lt == call.ret.date_lt_mat
    IN /\ call.exc = "none"
       /\ DOMAIN gt = 1..D /\ DOMAIN lt = 1..D
       /\ \A i \in 1..D :
            /\ DOMAIN gt[i] = 1..D /\ DOMAIN lt[i] = 1..D
            /\ \A j \in 1..D :
                 /\ gt[i][j] \in {0, 1} /\ lt[i][j] \in {0, 1}
                 /\ gt[i][j] = 1 <=> Date_gt(dv[i], dv[j]) = Return(TRUE)
                 /\ lt[i][j] = 1 <=> Date_gt(dv[j], dv[i]) = Return(TRUE)
       /\ D = 0 => (gt = <<>> /\ lt = <<>>)

(* C6 witness: a list of two Dates, the first with a known and the second  *)
(* with an unknown year: only date[0] > date[1] and date[1] < date[0]      *)
(* are set.                                                                *)
C6_MatricesOfTwoDates ==
  /\ MatricesComputed
  /\ Len(args.date_values) = 2
  /\ args.date_values[1].year # Unknown
  /\ args.date_values[2].year = Unknown
  /\ call.ret.date_gt_mat = <<<<0, 1>>, <<0, 0>>>>
  /\ call.ret.date_lt_mat = <<<<0, 0>>, <<1, 0>>>>

(***************************************************************************)
(* Properties of the date scoring and the date comparisons, checked under  *)
(* Spec.                                                                   *)
(***************************************************************************)
RECURSIVE SumOver(_, _)
SumOver(v, S) ==
  IF S = {} THEN 0
  ELSE LET t == CHOOSE u \in S : TRUE IN v[t] + SumOver(v, S \ {t})

(* x < y for two fractions with positive denominators                      *)
FractionLess(x, y) ==
  IF x.den = y.den THEN x.num < y.num ELSE x.num * y.den < y.num * x.den

FractionEqual(x, y) == x.num * y.den = y.num * x.den

ScoresComputed == pc = "ready" /\ call.name = "compute_date_scores"

(* the passage tokens that map to a date                                   *)
DateTokens ==
  {t \in DOMAIN self.passage_tokenidx2dateidx :
     self.passage_tokenidx2dateidx[t] > -1}

C9_NoDateTokenAllZero ==
  (ScoresComputed /\ DateTokens = {}) =>
    /\ call.exc = "none"
    /\ \A k \in DOMAIN call.ret.num : call.ret.num[k] = 0

LesserCompared ==
  pc = "ready" /\ call.name = "compare_date_lesser_than" /\ call.exc = "none"

GreaterCompared ==
  pc = "ready" /\ call.name = "compare_date_greater_than" /\ call.exc = "none"

(* C7: the weight compare_date_lesser_than puts on attention 1 is 1 minus  *)
(* the weight compare_date_greater_than puts on attention 1 for the same   *)
(* instance and the same two attentions.                                   *)
C7_LesserComplementsGreater ==
  LesserCompared =>
    LET greater == compare_date_greater_than(self, call.args[1], call.args[2])
    IN /\ greater.exc = "none"
       /\ FractionEqual(call.locals.weight_1, OneMinus(greater.locals.weight_1))

(* more than half of the distribution's mass is on date index k - 1        *)
ConcentratedOn(dist, k) == 2 * dist.num[k] > dist.den

(* The scenario of C10: the dates are 2001/1/1 and 2002/1/1, attention 1   *)
(* yields a distribution concentrated on the first and attention 2 one     *)
(* concentrated on the second.                                             *)
C10_Scenario ==
  /\ GreaterCompared
  /\ self.passage_date_values = <<Date(2001, 1, 1), Date(2002, 1, 1)>>
  /\ ConcentratedOn(call.locals.date_distribution_1, 1)
  /\ ConcentratedOn(call.locals.date_distribution_2, 2)

(* C10 as claimed: in the scenario compare_date_greater_than puts more     *)
(* weight on attention 1 than on attention 2.                              *)
C10_CloserToAttention1 ==
  C10_Scenario => FractionLess(call.locals.weight_2, call.locals.weight_1)

(* C10 as amended: in the scenario compare_date_greater_than puts less     *)
(* weight on attention 1 than on attention 2, date1 being the earlier      *)
(* date.                                                                   *)
C10_CloserToAttention2 ==
  C10_Scenario => FractionLess(call.locals.weight_1, call.locals.weight_2)

(* C10 witness: the scenario, with a blended attention that is the masked  *)
(* attention 2 for more than half.                                         *)
C10_ScenarioReached ==
  /\ C10_Scenario
  /\ call.args[1]._value = <<1, 0>>
  /\ call.args[2]._value = <<0, 1>>
  /\ 2 * call.ret._value.num[2] > call.ret._value.den

(***************************************************************************)
(* Further properties of the Date comparisons, checked under SpecDate.     *)
(***************************************************************************)
GeDone == pcDate = "ge"

(* C12: a Date compared with a value that is not a Date raises             *)
(* ExecutionError from ==, from > and from >=; no boolean comes back, also *)
(* when the other value carries the attributes year, month and day.        *)
C12_NonDateRaises ==
  \A x \in Idx, y \in Idx :
    (IsDate(Operand(x)) /\ ~IsDate(Operand(y))) =>
      /\ EqDone => eqRes[x][y] = Raise("ExecutionError")
      /\ GtDone => gtRes[x][y] = Raise("ExecutionError")
      /\ GeDone => geRes[x][y] = Raise("ExecutionError")

(* C12 witness: all three comparisons have been made between the Date a    *)
(* and the non-Date c, while the Dates a and b compared to a boolean.      *)
C12_NonDateCompared ==
  /\ GeDone
  /\ IsDate(b) /\ ~IsDate(c)
  /\ eqRes[1][3].exc = "ExecutionError"
  /\ gtRes[1][3].exc = "ExecutionError"
  /\ geRes[1][3].exc = "ExecutionError"
  /\ geRes[1][2].exc = "none"

HasUnknown(o) == IsDate(o) /\ \E f \in Fields : o[f] = Unknown

(* C16: over all Dates, partially unknown ones included, > is a strict     *)
(* partial order: a > a is False, and a > b with b > c implies a > c.      *)
C16_GtStrictPartialOrder ==
  GtDone =>
    /\ \A x \in Idx : IsDate(Operand(x)) => gtRes[x][x] = Return(FALSE)
    /\ \A x \in Idx, y \in Idx, z \in Idx :
         (IsDate(Operand(x)) /\ IsDate(Operand(y)) /\ IsDate(Operand(z))
            /\ IsGt(x, y) /\ IsGt(y, z)) => IsGt(x, z)

(* C16 witness: a chain c > b > a of three Dates with an unknown field in  *)
(* each of them, two of which are equal under ==.                          *)
C16_UnknownChain ==
  /\ GtDone
  /\ \A k \in Idx : HasUnknown(Operand(k))
  /\ IsGt(3, 2) /\ IsGt(2, 1) /\ IsGt(3, 1)
  /\ \E x \in Idx, y \in Idx : x # y /\ IsEq(x, y)

(***************************************************************************)
(* Further properties of the comparison matrices, checked under            *)
(* SpecStatic.                                                             *)
(***************************************************************************)
(* C17: for every date list the lt matrix is the transpose of the gt       *)
(* matrix, both diagonals are zero, and no cell is 1 in both matrices.     *)
C17_LtIsTransposeOfGt ==
  MatricesComputed =>
    LET D == Len(args.date_values)
        gt == call.ret.date_gt_mat
        lt == call.ret.date_lt_mat
    IN \A i \in 1..D, j \in 1..D :
         /\ lt[i][j] = gt[j][i]
         /\ gt[i][i] = 0 /\ lt[i][i] = 0
         /\ ~(gt[i][j] = 1 /\ lt[i][j] = 1)

(* C17 witness: two Dates that differ in the day and have both months      *)
(* unknown, so that neither is greater and they are not equal: all cells   *)
(* of both matrices are zero.                                              *)
C17_IncomparablePair ==
  /\ MatricesComputed
  /\ Len(args.date_values) = 2
  /\ args.date_values[1].month = Unknown
  /\ args.date_values[2].month = Unknown
  /\ args.date_values[1].year = args.date_values[2].year
  /\ args.date_values[1].day # Unknown
  /\ args.date_values[2].day # Unknown
  /\ args.date_values[1].day # args.date_values[2].day
  /\ call.ret.date_gt_mat = <<<<0, 0>>, <<0, 0>>>>
  /\ call.ret.date_lt_mat = <<<<0, 0>>, <<0, 0>>>>

(***************************************************************************)
(* Properties of the construction and of the predicates, checked under     *)
(* Spec.                                                                   *)
(***************************************************************************)
Constructed == pc \in {"placeholder", "ready"}

(* C13: a construction without an embedded question registers the start    *)
(* types and returns: initialize() and the three precomputations do not    *)
(* run and no field of the instance is set, whatever the other arguments.  *)
C13_PlaceholderComputesNothing ==
  (Constructed /\ args.embedded_question.is_none) =>
    /\ pc = "placeholder"
    /\ self = NoFields
    /\ ran = {"__init__"}
    /\ start_types = IF args.start_types.is_none
                     THEN {"PassageSpanAnswer", "QuestionSpanAnswer"}
                     ELSE args.start_types.types

(* C13 witness: a placeholder built from a call that passed an encoded     *)
(* question, a passage with a date and its own start types.                *)
C13_PlaceholderWithRealArguments ==
  /\ pc = "placeholder"
  /\ ~args.encoded_question.is_none
  /\ Len(args.passage_date_values) > 0
  /\ start_types = {"PassageSpanAnswer"}

SpanAnswered == pc = "ready" /\ call.name = "find_passageSpanAnswer"

(* the probability mass an entry of a log-probability tensor stands for,   *)
(* as a numerator: the exponential of -1e32 is 0                           *)
Mass(entry) == IF entry.sentinel THEN 0 ELSE entry.num

(* C11: in the PassageSpanAnswer of find_passageSpanAnswer every position  *)
(* with mask 0 holds the sentinel -1e32 as start logit, end logit, start   *)
(* log-probability and end log-probability, whatever the predictor         *)
(* returned; with every position masked all log-probabilities are the      *)
(* sentinel and no position has positive probability mass.                 *)
C11_MaskedPositionsHoldSentinel ==
  SpanAnswered =>
    LET mask == self.passage_mask
        answer == call.ret
    IN /\ call.exc = "none"
       /\ \A t \in DOMAIN mask :
            mask[t] = 0 =>
              /\ answer.start_logits[t] = Sentinel
              /\ answer.end_logits[t] = Sentinel
              /\ answer._value[1][t] = Sentinel
              /\ answer._value[2][t] = Sentinel
       /\ (\A t \in DOMAIN mask : mask[t] = 0) =>
            \A t \in DOMAIN mask :
              /\ answer._value[1][t] = Sentinel
              /\ answer._value[2][t] = Sentinel
              /\ Mass(answer._value[1][t]) = 0
              /\ Mass(answer._value[2][t]) = 0

(* C11 witness: a span answer for a passage of two tokens, both masked,    *)
(* when the predictor returned different logits for the two tokens.        *)
C11_AllMaskedPassageAnswered ==
  /\ SpanAnswered
  /\ self.passage_mask = <<0, 0>>
  /\ call.ret.start_logits = <<Sentinel, Sentinel>>
  /\ call.ret._value = <<<<Sentinel, Sentinel>>, <<Sentinel, Sentinel>>>>
  /\ \E logits \in SpanLogits(2) :
       /\ logits[1] # logits[2]
       /\ call.ret = find_passageSpanAnswer(self, call.args[1], logits).ret

PredicateNames ==
  {"find_QuestionAttention", "find_PassageAttention",
   "compare_date_greater_than", "compare_date_lesser_than",
   "find_passageSpanAnswer"}

(* C14: once the construction is complete no step changes a field of the   *)
(* instance, so the comparison matrices, the question-passage attention,   *)
(* the token-to-date similarity, the masks, the token-to-date-index        *)
(* mapping and the date list keep the values initialize() left, over any   *)
(* sequence of predicate calls; and the values passed to a predicate have  *)
(* the same payload after the call as before it.                           *)
C14_PredicatesLeaveStateUnchanged ==
  /\ [][pc = "ready" => (self' = self /\ start_types' = start_types
                                     /\ pc' = "ready")]_vars
  /\ [](pc = "ready" =>
          /\ DOMAIN self = DOMAIN ConstructedFields(args)
          /\ call.name \in PredicateNames => call.args_after = call.args)

(* C14 witness: compare_date_greater_than has run on an instance whose     *)
(* mask hides a token on which the first attention passed has weight: the  *)
(* comparison worked on the masked attention, the value passed is as it    *)
(* was, and the fields are those the construction computed.                *)
C14_ComparedOnMaskedAttention ==
  /\ GreaterCompared
  /\ \E t \in DOMAIN self.passage_mask :
       /\ self.passage_mask[t] = 0
       /\ call.args[1]._value[t] # 0
       /\ call.locals.passage_attention_1[t] = 0
  /\ call.args_after = call.args
  /\ self = ConstructedFields(args)

(***************************************************************************)
(* Properties of the grammar, checked under SpecGrammar.                   *)
(***************************************************************************)
Comparisons == {"compare_date_greater_than", "compare_date_lesser_than"}

ProgramBuilt == pc = "grammar"

IsAnswerProgram(prog) ==
  /\ prog.pred = "find_passageSpanAnswer"
  /\ Len(prog.children) = 1
  /\ prog.children[1].pred \in Comparisons
  /\ prog.children[1].children
       = <<Apply("find_PassageAttention", <<>>), Apply("find_PassageAttention", <<>>)>>

(* C15: a well-typed program of a start type is find_passageSpanAnswer     *)
(* applied to a date comparison of two find_PassageAttention; no program   *)
(* has the type QuestionSpanAnswer; find_passageSpanAnswer is well typed   *)
(* only on a date comparison; and no well-typed program has an argument of *)
(* type QuestionAttention.                                                 *)
C15_OnlyDateComparisonPrograms ==
  ProgramBuilt =>
    LET prog == call.prog
        type == TypeOf(prog)
    IN /\ type \in start_types => IsAnswerProgram(prog)
       /\ type # "QuestionSpanAnswer"
       /\ (type # "ill-typed" /\ prog.pred = "find_passageSpanAnswer") =>
            prog.children[1].pred \in Comparisons
       /\ type # "ill-typed" =>
            \A k \in 1..Len(prog.children) :
              TypeOf(prog.children[k]) # "QuestionAttention"

(* C15 witness: the program find_passageSpanAnswer(compare_date_lesser_than *)
(* (find_PassageAttention, find_PassageAttention)) is built and has the    *)
(* start type PassageSpanAnswer.                                           *)
C15_AnswerProgramBuilt ==
  /\ ProgramBuilt
  /\ call.prog.pred = "find_passageSpanAnswer"
  /\ call.prog.children[1].pred = "compare_date_lesser_than"
  /\ IsAnswerProgram(call.prog)
  /\ TypeOf(call.prog) = "PassageSpanAnswer"
  /\ TypeOf(call.prog) \in start_types

=============================================================================
